---- MODULE Spec2Model ----
(***************************************************************************)
(* A model of package ini (parse_ini.go): the process-wide registry        *)
(* iniFiler, the subscriber table updaters, the fileDetails handles with   *)
(* their snapshot cfg and watch flag, and the background watch loops that  *)
(* keepWatch and newKeepWatch start.                                       *)
(*                                                                         *)
(* The two collaborators are modelled by what the code relies on:          *)
(*   ini.Load(name)  returns (nil, err) when the file cannot be read or    *)
(*                   parsed, and a fresh *ini.File otherwise;              *)
(*   Section() on a nil ini.File dereferences the nil pointer (a panic);  *)
(*   fsnotify        delivers the events of a path, in order, to every     *)
(*                   watcher the path was added to.                        *)
(*                                                                         *)
(* Spec is the whole program.  Its state space is too large to enumerate,  *)
(* so the properties are checked under the specifications SpecOpen,        *)
(* SpecSeq, SpecRead, SpecWatch, FairWatch and SpecReg, each of which runs *)
(* a part of the public calls over the same actions.  In these the loop's  *)
(* load() and update() are one step each, taken with the lock free.        *)
(* SpecLock and FairLock run the loop with every lock operation a step of  *)
(* its own and the callbacks as goroutines that call back into the package.*)
(***************************************************************************)
EXTENDS Integers, Sequences, FiniteSets, TLC

\* ---------------------------------------------------------------- bounds
MaxFds == 2
MaxWatchers == 2
MaxEvents == 2
MaxSubs == 2

\* ------------------------------------------------------------- constants
\* fsnotify.Op bits (gopkg.in/fsnotify.v1): Create 1, Write 2, Remove 4,
\* Rename 8, Chmod 16.
OpWrite == 2
OpChmod == 16

Paths == {"a.ini"}
Clients == {"c1", "c2"}
Callbacks == {"A", "B"}
Sections == {"server", "other"}
Keys == {"port", "host"}
Defaults == {"dflt"}

Nil == "nil"
\* A nil *ini.File and a nil map; kept apart from the values that are not nil.
NilCfg == [nil |-> "cfg"]
NilMap == [nil |-> "map"]
Fault == "panic"
Bad == "bad"

\* The parsed form of the file texts the model uses: section -> key -> value,
\* "" for a key that is absent or empty (Section() and Key() of ini.v1 create
\* the missing section or key with an empty value, so a lookup is total).
\*   f1:  [server] port=8080
\*   f2:  [server] port=9090, host=        (an empty value)
Texts == {"f1", "f2"}
Parsed(t) ==
    [s \in Sections |-> [k \in Keys |->
        IF s = "server" /\ k = "port"
        THEN (IF t = "f1" THEN "8080" ELSE "9090")
        ELSE ""]]

FileStates == Texts \cup {Bad}

VARIABLES
    file,       \* file[p]: the text on disk at path p, or Bad
    events,     \* the filesystem events emitted so far: <<[path, op]>>
    iniFiler,   \* NilMap, or path -> handle id (0: no entry)
    updaters,   \* NilMap, or path -> sequence of callbacks
    fds,        \* the fileDetails objects: <<[fileName, watch, cfg, origin, returned]>>
    watchers,   \* the armed watch loops: <<[fd, kind, pos, pc, cur]>>
    pc,         \* pc[c]: where client c is inside NewIniFile / MapContents
    loc,        \* loc[c]: the locals of client c's call in progress
    invoked,    \* invoked[e][cb]: goroutines started for callback cb on event e
    last,       \* the most recent public call that returned: [op, fd, err, val]
    upd,        \* the update() that holds the mutex: [by, list, i], by = 0: none
    gos         \* the callback goroutines started: <<[cb, e, w, fd, pc]>>

vars == <<file, events, iniFiler, updaters, fds, watchers, pc, loc, invoked, last,
          upd, gos>>

\* ----------------------------------------------------------- collaborators
\* ini.Load(fileName): (nil, err) for an unreadable or unparsable file.
IniLoad(t) ==
    IF t = Bad THEN [cfg |-> NilCfg, err |-> TRUE]
    ELSE [cfg |-> Parsed(t), err |-> FALSE]

\* (every event taken for a write)
IsWrite_anyOp(op) == op # 0

\* event.Op&fsnotify.Write == fsnotify.Write
IsWrite(op) == (op \div OpWrite) % 2 = 1

EmptyTable == [p \in Paths |-> <<>>]
EmptyRegistry == [p \in Paths |-> 0]

\* iniFiler[fileName] and updaters[fileName]: reading a nil map yields the
\* zero value.
Lookup(p) == IF iniFiler = NilMap THEN 0 ELSE iniFiler[p]
Subscribers(p) == IF updaters = NilMap THEN <<>> ELSE updaters[p]

NoLoc == [p |-> Nil, h |-> 0, t |-> Nil]
NoCall == [op |-> "none", fd |-> 0, err |-> FALSE, val |-> Nil]

\* No update() is running: the mutex is free.
NoUpdate == [by |-> 0, list |-> <<>>, i |-> 0]

FdIds == 1..Len(fds)
WatcherIds == 1..Len(watchers)
GoIds == 1..Len(gos)

\* fd.lock of handle h.  It is held exclusively by the loop that is inside
\* load() (lines 193-194), and shared by the goroutines that are inside
\* ReadKey (lines 210-211).
WriteLocked(h) == \E w \in WatcherIds : watchers[w].fd = h /\ watchers[w].pc = "loading"
ReadLocked(h) == \E g \in GoIds : gos[g].fd = h /\ gos[g].pc = "reading"
\* The handles a client holds: those a public call has returned.
Returned == {h \in FdIds : fds[h].returned}

\* ------------------------------------------------------------------ state
Init ==
    /\ file \in [Paths -> FileStates]
    /\ events = <<>>
    /\ iniFiler = NilMap
    /\ updaters = NilMap
    /\ fds = <<>>
    /\ watchers = <<>>
    /\ pc = [c \in Clients |-> "idle"]
    /\ loc = [c \in Clients |-> NoLoc]
    /\ invoked = [e \in 1..MaxEvents |-> [cb \in Callbacks |-> 0]]
    /\ last = NoCall
    /\ upd = NoUpdate
    /\ gos = <<>>

\* ------------------------------------------------------------ environment
\* The file at p is rewritten with text t (possibly unparsable); the watch
\* facility emits a Write event for p.
FileWrite(p, t) ==
    /\ Len(events) < MaxEvents
    /\ file' = [file EXCEPT ![p] = t]
    /\ events' = Append(events, [path |-> p, op |-> OpWrite])
    /\ UNCHANGED <<iniFiler, updaters, fds, watchers, pc, loc, invoked, last>>
    /\ UNCHANGED <<upd, gos>>

\* A metadata-only touch of p: a Chmod event, the text is unchanged.
FileChmod(p) ==
    /\ Len(events) < MaxEvents
    /\ events' = Append(events, [path |-> p, op |-> OpChmod])
    /\ UNCHANGED <<file, iniFiler, updaters, fds, watchers, pc, loc, invoked, last>>
    /\ UNCHANGED <<upd, gos>>

\* ------------------------------------------------------------- keepWatch
\* The watch loop that keepWatch (kind "load") or newKeepWatch (kind
\* "notify") starts for handle h.  nw: fsnotify.NewWatcher succeeded;
\* add: watchman.Add succeeded.  A loop whose watcher was never added to the
\* path blocks for ever on an empty channel and is not recorded.
NewLoop(h, kind) ==
    [fd |-> h, kind |-> kind, pos |-> Len(events) + 1, pc |-> "wait", cur |-> 0]

Armed(ws, h, kind, nw, add) ==
    IF nw /\ add THEN Append(ws, NewLoop(h, kind)) ELSE ws

\* fd.load() with the lock held throughout: the snapshot is assigned the
\* result of ini.Load, nil included; on success keepWatch runs while the
\* watch flag is false, and its error is dropped.
LoadedFd(f, t, nw, add) ==
    LET r == IniLoad(t) IN
    [f EXCEPT !.cfg = r.cfg,
              !.watch = IF ~r.err /\ ~f.watch THEN nw /\ add ELSE f.watch]

\* (the watch flag is not consulted: every successful load arms a loop)
LoadedWatchers_rearms(ws, h, f, t, nw, add) ==
    IF ~IniLoad(t).err THEN Armed(ws, h, "load", nw, add) ELSE ws

LoadedWatchers(ws, h, f, t, nw, add) ==
    IF ~IniLoad(t).err /\ ~f.watch THEN Armed(ws, h, "load", nw, add) ELSE ws

\* ---------------------------------------------------------------- ReadKey
\* fd.cfg.Section(section).Key(key).String(), or defaultVal when that is "".
ReadKeyVal(cfg, section, key, defaultVal) ==
    IF cfg = NilCfg THEN Fault
    ELSE LET val == cfg[section][key]
         IN IF val # "" THEN val ELSE defaultVal

ReadKey(c, h, section, key, defaultVal) ==
    /\ pc[c] = "idle"
    /\ h \in Returned
    /\ ~WriteLocked(h)
    /\ last' = [op |-> "ReadKey", fd |-> h, err |-> FALSE,
                val |-> ReadKeyVal(fds[h].cfg, section, key, defaultVal)]
    /\ UNCHANGED <<file, events, iniFiler, updaters, fds, watchers, pc, loc, invoked>>
    /\ UNCHANGED <<upd, gos>>

\* The outcomes of fsnotify.NewWatcher and watchman.Add: either may fail, and
\* Add fails once the facility's watch limit is used up.
AddOutcomes == {a \in BOOLEAN : a => Len(watchers) < MaxWatchers}

\* ------------------------------------------------------------- NewIniFile
\* (the registry is not consulted: every call loads a fresh handle)
NewIniFile_alwaysLoads(c, p) ==
    /\ pc[c] = "idle"
    /\ Len(fds) + Cardinality({d \in Clients : pc[d] = "load"}) < MaxFds
    /\ pc' = [pc EXCEPT ![c] = "load"]
    /\ loc' = [loc EXCEPT ![c] = [p |-> p, h |-> 0, t |-> Nil]]
    /\ UNCHANGED <<file, events, iniFiler, updaters, fds, watchers, invoked, last>>
    /\ UNCHANGED <<upd, gos>>

\* Lines 172-176: the registry lookup.  A hit returns the stored handle; a
\* miss goes on to load a fresh fileDetails.
NewIniFile(c, p) ==
    /\ pc[c] = "idle"
    /\ IF Lookup(p) # 0
       THEN /\ last' = [op |-> "NewIniFile", fd |-> Lookup(p), err |-> FALSE, val |-> "found"]
            /\ UNCHANGED <<pc, loc>>
       ELSE /\ Len(fds) + Cardinality({d \in Clients : pc[d] = "load"}) < MaxFds
            /\ pc' = [pc EXCEPT ![c] = "load"]
            /\ loc' = [loc EXCEPT ![c] = [NoLoc EXCEPT !.p = p]]
            /\ UNCHANGED last
    /\ UNCHANGED <<file, events, iniFiler, updaters, fds, watchers, invoked>>
    /\ UNCHANGED <<upd, gos>>

\* (the handle whose load failed is stored in the registry all the same)
OpenLoadFailed_stores(c) ==
    /\ pc' = [pc EXCEPT ![c] = "idle"]
    /\ loc' = [loc EXCEPT ![c] = [p |-> Nil, h |-> 0, t |-> Nil]]
    /\ last' = [op |-> "NewIniFile", fd |-> 0, err |-> TRUE, val |-> Nil]
    /\ fds' = Append(fds, [fileName |-> loc[c].p, watch |-> FALSE, cfg |-> NilCfg,
                           origin |-> "NewIniFile", returned |-> FALSE])
    /\ iniFiler' = [p \in Paths |-> IF p = loc[c].p THEN Len(fds) + 1 ELSE Lookup(p)]
    /\ UNCHANGED <<updaters, watchers>>

\* Lines 177-179, the initial load failed: return nil, err.
OpenLoadFailed(c) ==
    /\ pc' = [pc EXCEPT ![c] = "idle"]
    /\ loc' = [loc EXCEPT ![c] = NoLoc]
    /\ last' = [op |-> "NewIniFile", fd |-> 0, err |-> TRUE, val |-> Nil]
    /\ UNCHANGED <<iniFiler, updaters, fds, watchers>>

\* Lines 176-177, the initial load succeeded: the new fileDetails holds the
\* snapshot and, when its watcher was armed, has a running watch loop.
OpenLoaded(c, t, nw, add) ==
    LET h == Len(fds) + 1
        f0 == [fileName |-> loc[c].p, watch |-> FALSE, cfg |-> NilCfg,
               origin |-> "NewIniFile", returned |-> FALSE]
    IN /\ fds' = Append(fds, LoadedFd(f0, t, nw, add))
       /\ watchers' = LoadedWatchers(watchers, h, f0, t, nw, add)
       /\ pc' = [pc EXCEPT ![c] = "upd"]
       /\ loc' = [loc EXCEPT ![c].h = h]
       /\ UNCHANGED <<iniFiler, updaters, last>>

NewIniFile_load(c) ==
    /\ pc[c] = "load"
    /\ \E nw \in BOOLEAN, add \in AddOutcomes :
          IF IniLoad(file[loc[c].p]).err
          THEN OpenLoadFailed(c)
          ELSE OpenLoaded(c, file[loc[c].p], nw, add)
    /\ UNCHANGED <<file, events, invoked>>
    /\ UNCHANGED <<upd, gos>>

\* Lines 181-183: "if updaters == nil" is read, and the map made, without
\* the mutex; the read and the write are separate steps.
NewIniFile_updCheck(c) ==
    /\ pc[c] = "upd"
    /\ pc' = [pc EXCEPT ![c] = IF updaters = NilMap THEN "updmake" ELSE "reg"]
    /\ UNCHANGED <<file, events, iniFiler, updaters, fds, watchers, loc, invoked, last>>
    /\ UNCHANGED <<upd, gos>>

NewIniFile_updMake(c) ==
    /\ pc[c] = "updmake"
    /\ updaters' = EmptyTable
    /\ pc' = [pc EXCEPT ![c] = "reg"]
    /\ UNCHANGED <<file, events, iniFiler, fds, watchers, loc, invoked, last>>
    /\ UNCHANGED <<upd, gos>>

\* Lines 184-186: "if iniFiler == nil" is read.
NewIniFile_regCheck(c) ==
    /\ pc[c] = "reg"
    /\ pc' = [pc EXCEPT ![c] = IF iniFiler = NilMap THEN "storemake" ELSE "store"]
    /\ UNCHANGED <<file, events, iniFiler, updaters, fds, watchers, loc, invoked, last>>
    /\ UNCHANGED <<upd, gos>>

\* Lines 185-188: the map is made when it was seen nil, the handle is stored
\* under its path and returned.
Stored(reg, p, h) == [reg EXCEPT ![p] = h]

NewIniFile_store(c) ==
    /\ pc[c] \in {"store", "storemake"}
    /\ iniFiler' = Stored(IF pc[c] = "storemake" THEN EmptyRegistry ELSE iniFiler,
                          loc[c].p, loc[c].h)
    /\ fds' = [fds EXCEPT ![loc[c].h].returned = TRUE]
    /\ last' = [op |-> "NewIniFile", fd |-> loc[c].h, err |-> FALSE, val |-> "stored"]
    /\ pc' = [pc EXCEPT ![c] = "idle"]
    /\ loc' = [loc EXCEPT ![c] = NoLoc]
    /\ UNCHANGED <<file, events, updaters, watchers, invoked>>
    /\ UNCHANGED <<upd, gos>>

\* ---------------------------------------------------------------- Register
\* Lines 269-277, under the mutex: append f to the list of the handle's path.
Registered(tbl, p, f) == [tbl EXCEPT ![p] = Append(@, f)]

Register(c, h, f) ==
    /\ pc[c] = "idle"
    /\ h \in Returned
    /\ Len(Subscribers(fds[h].fileName)) < MaxSubs
    /\ upd.by = 0
    /\ updaters' = Registered(IF updaters = NilMap THEN EmptyTable ELSE updaters,
                              fds[h].fileName, f)
    /\ UNCHANGED <<file, events, iniFiler, fds, watchers, pc, loc, invoked, last>>
    /\ UNCHANGED <<upd, gos>>

\* --------------------------------------------------------------- KeepWatch
\* Lines 303-329: every call makes a watcher and starts a loop of its own;
\* the handle's watch flag is neither read nor written.
KeepWatchLoops(ws, h, nw, add) == Armed(ws, h, "notify", nw, add)

KeepWatch(c, h) ==
    /\ pc[c] = "idle"
    /\ h \in Returned
    /\ \E nw \in BOOLEAN, add \in AddOutcomes :
          /\ watchers' = KeepWatchLoops(watchers, h, nw, add)
          /\ last' = [op |-> "KeepWatch", fd |-> h, err |-> ~(nw /\ add), val |-> Nil]
    /\ UNCHANGED <<file, events, iniFiler, updaters, fds, pc, loc, invoked>>
    /\ UNCHANGED <<upd, gos>>

\* ------------------------------------------------------------- MapContents
\* Line 296, first half: ini.Load reads the file.  No lock is taken.
MapContents(c, h) ==
    /\ pc[c] = "idle"
    /\ h \in Returned
    /\ pc' = [pc EXCEPT ![c] = "map"]
    /\ loc' = [loc EXCEPT ![c] = [p |-> fds[h].fileName, h |-> h, t |-> file[fds[h].fileName]]]
    /\ UNCHANGED <<file, events, iniFiler, updaters, fds, watchers, invoked, last>>
    /\ UNCHANGED <<upd, gos>>

\* Lines 296-300: the result of ini.Load is assigned to fd.cfg, nil included;
\* then the load error, or the outcome dec of cfg.MapTo(v), is returned.
MapContents_assign(c) ==
    /\ pc[c] = "map"
    /\ fds' = [fds EXCEPT ![loc[c].h].cfg = IniLoad(loc[c].t).cfg]
    /\ \E dec \in BOOLEAN :
          last' = [op |-> "MapContents", fd |-> loc[c].h,
                   err |-> IniLoad(loc[c].t).err \/ ~dec, val |-> Nil]
    /\ pc' = [pc EXCEPT ![c] = "idle"]
    /\ loc' = [loc EXCEPT ![c] = NoLoc]
    /\ UNCHANGED <<file, events, iniFiler, updaters, watchers, invoked>>
    /\ UNCHANGED <<upd, gos>>

\* (the handle is built by load(), which arms a watch loop)
LoadIniConfig_watches(c, p) ==
    /\ pc[c] = "idle"
    /\ \E dec \in BOOLEAN, nw \in BOOLEAN, add \in AddOutcomes :
          IF IniLoad(file[p]).err \/ ~dec
          THEN /\ last' = [op |-> "LoadIniConfig", fd |-> 0, err |-> TRUE, val |-> Nil]
               /\ UNCHANGED <<fds, watchers>>
          ELSE /\ Len(fds) + Cardinality({d \in Clients : pc[d] = "load"}) < MaxFds
               /\ fds' = Append(fds, [fileName |-> p, watch |-> nw /\ add,
                                      cfg |-> IniLoad(file[p]).cfg,
                                      origin |-> "LoadIniConfig", returned |-> TRUE])
               /\ watchers' = Armed(watchers, Len(fds) + 1, "load", nw, add)
               /\ last' = [op |-> "LoadIniConfig", fd |-> Len(fds) + 1, err |-> FALSE, val |-> Nil]
    /\ UNCHANGED <<file, events, iniFiler, updaters, pc, loc, invoked>>
    /\ UNCHANGED <<upd, gos>>

\* ----------------------------------------------------------- LoadIniConfig
\* Lines 280-291: the file is loaded, a fileDetails is built around the
\* snapshot and MapContents loads and decodes it again; the handle is private
\* until it is returned, so the call is one step.  No watch is started and
\* the registry is not touched.
LoadIniConfig(c, p) ==
    /\ pc[c] = "idle"
    /\ \E dec \in BOOLEAN :
          IF IniLoad(file[p]).err \/ ~dec
          THEN /\ last' = [op |-> "LoadIniConfig", fd |-> 0, err |-> TRUE, val |-> Nil]
               /\ UNCHANGED fds
          ELSE /\ Len(fds) + Cardinality({d \in Clients : pc[d] = "load"}) < MaxFds
               /\ fds' = Append(fds, [fileName |-> p, watch |-> FALSE,
                                      cfg |-> IniLoad(file[p]).cfg,
                                      origin |-> "LoadIniConfig", returned |-> TRUE])
               /\ last' = [op |-> "LoadIniConfig", fd |-> Len(fds) + 1, err |-> FALSE, val |-> Nil]
    /\ UNCHANGED <<file, events, iniFiler, updaters, watchers, pc, loc, invoked>>
    /\ UNCHANGED <<upd, gos>>

\* ------------------------------------------------------------- watch loops
\* The index of the next event of w's path that w has not consumed, 0 if none.
NextEvent(w) ==
    LET mine == {i \in watchers[w].pos..Len(events) :
                    events[i].path = fds[watchers[w].fd].fileName}
    IN IF mine = {} THEN 0 ELSE CHOOSE i \in mine : \A j \in mine : i <= j

\* Lines 231-240 and 315-320: an event is received.  A Write event sends the
\* loop of keepWatch to fd.load() and the loop of newKeepWatch to fd.update();
\* any other event is ignored and the loop waits again.
AfterEvent(kind, op) ==
    IF IsWrite(op) THEN (IF kind = "load" THEN "load" ELSE "update") ELSE "wait"

Loop_recv(w) ==
    /\ watchers[w].pc = "wait"
    /\ NextEvent(w) # 0
    /\ LET e == NextEvent(w)
           to == AfterEvent(watchers[w].kind, events[e].op)
       IN watchers' = [watchers EXCEPT ![w].pos = e + 1,
                                       ![w].pc = to,
                                       ![w].cur = IF to = "wait" THEN 0 ELSE e]
    /\ UNCHANGED <<file, events, iniFiler, updaters, fds, pc, loc, invoked, last>>
    /\ UNCHANGED <<upd, gos>>

\* (a failed load ends the handling of the event: update() is not called)
Loop_load_skipsUpdate(w) ==
    /\ watchers[w].pc = "load"
    /\ ~WriteLocked(watchers[w].fd) /\ ~ReadLocked(watchers[w].fd)
    /\ LET h == watchers[w].fd
           t == file[fds[h].fileName]
           to == IF IniLoad(t).err THEN "wait" ELSE "update"
       IN \E nw \in BOOLEAN, add \in AddOutcomes :
             /\ fds' = [fds EXCEPT ![h] = LoadedFd(fds[h], t, nw, add)]
             /\ watchers' = LoadedWatchers([watchers EXCEPT ![w].pc = to],
                                           h, fds[h], t, nw, add)
    /\ UNCHANGED <<file, events, iniFiler, updaters, pc, loc, invoked, last>>
    /\ UNCHANGED <<upd, gos>>

\* Line 235: fd.load(), its error dropped.
Loop_load(w) ==
    /\ watchers[w].pc = "load"
    /\ ~WriteLocked(watchers[w].fd) /\ ~ReadLocked(watchers[w].fd)
    /\ LET h == watchers[w].fd
           t == file[fds[h].fileName]
       IN \E nw \in BOOLEAN, add \in AddOutcomes :
             /\ fds' = [fds EXCEPT ![h] = LoadedFd(fds[h], t, nw, add)]
             /\ watchers' = LoadedWatchers([watchers EXCEPT ![w].pc = "update"],
                                           h, fds[h], t, nw, add)
    /\ UNCHANGED <<file, events, iniFiler, updaters, pc, loc, invoked, last>>
    /\ UNCHANGED <<upd, gos>>

\* Lines 254-267: update(), under the mutex: one goroutine is started for
\* every callback in the list of the handle's path.
Dispatched(inv, e, list) ==
    [inv EXCEPT ![e] = [cb \in Callbacks |->
        @[cb] + Cardinality({i \in 1..Len(list) : list[i] = cb})]]

Loop_update(w) ==
    /\ watchers[w].pc = "update"
    /\ upd.by = 0
    /\ invoked' = Dispatched(invoked, watchers[w].cur,
                             Subscribers(fds[watchers[w].fd].fileName))
    /\ watchers' = [watchers EXCEPT ![w].pc = "wait", ![w].cur = 0]
    /\ UNCHANGED <<file, events, iniFiler, updaters, fds, pc, loc, last>>
    /\ UNCHANGED <<upd, gos>>

\* ------------------------------------------------ the loop, lock by lock
\* The same loop with every lock operation a step of its own, and with the
\* callbacks that update() starts running as goroutines.
\*
\* Line 193: load(), called by the loop for a Write event, takes fd.lock.
Load_lock(w) ==
    /\ watchers[w].pc = "load"
    /\ ~WriteLocked(watchers[w].fd) /\ ~ReadLocked(watchers[w].fd)
    /\ watchers' = [watchers EXCEPT ![w].pc = "loading"]
    /\ UNCHANGED <<file, events, iniFiler, updaters, fds, pc, loc, invoked, last>>
    /\ UNCHANGED <<upd, gos>>

\* Lines 196-206 and the deferred Unlock: the snapshot is assigned, the watch
\* armed while the flag is false, the lock released.
Load_unlock(w) ==
    /\ watchers[w].pc = "loading"
    /\ LET h == watchers[w].fd
           t == file[fds[h].fileName]
       IN \E nw \in BOOLEAN, add \in AddOutcomes :
             /\ fds' = [fds EXCEPT ![h] = LoadedFd(fds[h], t, nw, add)]
             /\ watchers' = LoadedWatchers([watchers EXCEPT ![w].pc = "update"],
                                           h, fds[h], t, nw, add)
    /\ UNCHANGED <<file, events, iniFiler, updaters, pc, loc, invoked, last>>
    /\ UNCHANGED <<upd, gos>>

\* Lines 256-258: update() takes the mutex and reads the list of the path.
Update_lock(w) ==
    /\ watchers[w].pc = "update"
    /\ upd.by = 0
    /\ upd' = [by |-> w, list |-> Subscribers(fds[watchers[w].fd].fileName), i |-> 1]
    /\ watchers' = [watchers EXCEPT ![w].pc = "dispatch"]
    /\ UNCHANGED <<file, events, iniFiler, updaters, fds, pc, loc, invoked, last>>
    /\ UNCHANGED gos

\* What a callback does when it runs: it calls ReadKey or Register on the
\* handle of the path, or it blocks for ever.
Bodies == {"ReadKey", "Register", "blocked"}

\* The goroutine that runs entry upd.i of the list for loop w.
Started(w, body) ==
    [cb |-> upd.list[upd.i], e |-> watchers[w].cur, w |-> w,
     fd |-> watchers[w].fd, pc |-> body]

\* The goroutines of loop w's dispatch in progress.
StartedBy(w) == {g \in GoIds : gos[g].w = w /\ gos[g].e = watchers[w].cur}

\* (the callback is called in update() itself, which goes on when it returns)
Update_go_inline(w) ==
    /\ watchers[w].pc = "dispatch"
    /\ upd.i <= Len(upd.list)
    /\ \A g \in StartedBy(w) : gos[g].pc = "done"
    /\ \E body \in Bodies :
          /\ body = "Register" => Len(Subscribers(fds[watchers[w].fd].fileName)) < MaxSubs
          /\ gos' = Append(gos, Started(w, body))
    /\ invoked' = [invoked EXCEPT ![watchers[w].cur][upd.list[upd.i]] = @ + 1]
    /\ upd' = [upd EXCEPT !.i = @ + 1]
    /\ UNCHANGED <<file, events, iniFiler, updaters, fds, watchers, pc, loc, last>>

\* Lines 264-266: "go cbUpdateFunc()" for the next entry of the list, in the
\* order of the list; update() does not wait for the goroutine.
Update_go(w) ==
    /\ watchers[w].pc = "dispatch"
    /\ upd.i <= Len(upd.list)
    /\ \E body \in Bodies :
          /\ body = "Register" => Len(Subscribers(fds[watchers[w].fd].fileName)) < MaxSubs
          /\ gos' = Append(gos, Started(w, body))
    /\ invoked' = [invoked EXCEPT ![watchers[w].cur][upd.list[upd.i]] = @ + 1]
    /\ upd' = [upd EXCEPT !.i = @ + 1]
    /\ UNCHANGED <<file, events, iniFiler, updaters, fds, watchers, pc, loc, last>>

\* Lines 257 and 267: the list is done, the deferred mutex.Unlock() runs and
\* the loop waits for the next event.
Update_unlock(w) ==
    /\ watchers[w].pc = "dispatch"
    /\ upd.i > Len(upd.list)
    /\ upd' = NoUpdate
    /\ watchers' = [watchers EXCEPT ![w].pc = "wait", ![w].cur = 0]
    /\ UNCHANGED <<file, events, iniFiler, updaters, fds, pc, loc, invoked, last>>
    /\ UNCHANGED gos

\* -------------------------------------------------------------- callbacks
\* A callback's ReadKey: lines 210-211, fd.lock.RLock().
Cb_RLock(g) ==
    /\ gos[g].pc = "ReadKey"
    /\ ~WriteLocked(gos[g].fd)
    /\ gos' = [gos EXCEPT ![g].pc = "reading"]
    /\ UNCHANGED <<file, events, iniFiler, updaters, fds, watchers, pc, loc, invoked, last>>
    /\ UNCHANGED upd

\* Lines 213-217 and the deferred RUnlock: the value is returned and the
\* callback ends, or Section() panics on the nil snapshot and the goroutine
\* ends in the panic (which ends the process).
Cb_RUnlock(g) ==
    /\ gos[g].pc = "reading"
    /\ \E section \in Sections, key \in Keys, defaultVal \in Defaults :
          gos' = [gos EXCEPT ![g].pc =
                     IF ReadKeyVal(fds[gos[g].fd].cfg, section, key, defaultVal) = Fault
                     THEN "panic" ELSE "done"]
    /\ UNCHANGED <<file, events, iniFiler, updaters, fds, watchers, pc, loc, invoked, last>>
    /\ UNCHANGED upd

\* A callback's Register of itself: lines 271-276, under the mutex.
Cb_Register(g) ==
    /\ gos[g].pc = "Register"
    /\ upd.by = 0
    /\ updaters' = Registered(IF updaters = NilMap THEN EmptyTable ELSE updaters,
                              fds[gos[g].fd].fileName, gos[g].cb)
    /\ gos' = [gos EXCEPT ![g].pc = "done"]
    /\ UNCHANGED <<file, events, iniFiler, fds, watchers, pc, loc, invoked, last>>
    /\ UNCHANGED upd

\* ------------------------------------------------------------------- Next
Env ==
    \/ \E p \in Paths, t \in FileStates : FileWrite(p, t)
    \/ \E p \in Paths : FileChmod(p)

\* The steps of NewIniFile as run by the clients in C.
OpenSteps(C) ==
    \/ \E c \in C : NewIniFile_load(c)
    \/ \E c \in C : NewIniFile_updCheck(c)
    \/ \E c \in C : NewIniFile_updMake(c)
    \/ \E c \in C : NewIniFile_regCheck(c)
    \/ \E c \in C : NewIniFile_store(c)

Open(C) ==
    \/ \E c \in C, p \in Paths : NewIniFile(c, p)
    \/ OpenSteps(C)

\* The same, with no NewIniFile call issued while another is in progress.
InOpen(c) == pc[c] \in {"load", "upd", "updmake", "reg", "store", "storemake"}

OpenSeq(C) ==
    \/ \E c \in C, p \in Paths : (\A d \in Clients : ~InOpen(d)) /\ NewIniFile(c, p)
    \/ OpenSteps(C)

Loops ==
    \/ \E w \in WatcherIds : Loop_recv(w)
    \/ \E w \in WatcherIds : Loop_load(w)
    \/ \E w \in WatcherIds : Loop_update(w)

Reads(C) ==
    \E c \in C, h \in FdIds, s \in Sections, k \in Keys, d \in Defaults :
        ReadKey(c, h, s, k, d)

Maps(C) ==
    \/ \E c \in C, h \in FdIds : MapContents(c, h)
    \/ \E c \in C : MapContents_assign(c)

Registers(C) == \E c \in C, h \in FdIds, f \in Callbacks : Register(c, h, f)

KeepWatches(C) == \E c \in C, h \in FdIds : KeepWatch(c, h)

LoadIniConfigs(C) == \E c \in C, p \in Paths : LoadIniConfig(c, p)

LockLoops ==
    \/ \E w \in WatcherIds : Loop_recv(w)
    \/ \E w \in WatcherIds : Load_lock(w)
    \/ \E w \in WatcherIds : Load_unlock(w)
    \/ \E w \in WatcherIds : Update_lock(w)
    \/ \E w \in WatcherIds : Update_go(w)
    \/ \E w \in WatcherIds : Update_unlock(w)

CallbackSteps ==
    \/ \E g \in GoIds : Cb_RLock(g)
    \/ \E g \in GoIds : Cb_RUnlock(g)
    \/ \E g \in GoIds : Cb_Register(g)

\* The whole program: every public call from every client, the environment
\* and the watch loops.
Next ==
    \/ Env
    \/ Open(Clients)
    \/ Loops
    \/ Reads(Clients)
    \/ Maps(Clients)
    \/ Registers(Clients)
    \/ KeepWatches(Clients)
    \/ LoadIniConfigs(Clients)

Spec == Init /\ [][Next]_vars

\* The open protocol: concurrent NewIniFile calls, the file changing under
\* them, and the watch loops the loads start.
NextOpen == Env \/ Open(Clients) \/ Loops

SpecOpen == Init /\ [][NextOpen]_vars

\* Sequential use of open: both clients call NewIniFile, but no two calls
\* overlap; c1 also calls KeepWatch and c2 LoadIniConfig.
NextSeq ==
    \/ Env
    \/ OpenSeq(Clients)
    \/ Loops
    \/ KeepWatches({"c1"})
    \/ LoadIniConfigs({"c2"})

SpecSeq == Init /\ [][NextSeq]_vars

\* The snapshot and its readers: c1 opens and reads, c2 calls MapContents,
\* the watch loops reload.
NextRead == Env \/ Open(Clients) \/ Loops \/ Maps({"c2"}) \/ Reads({"c1"})

SpecRead == Init /\ [][NextRead]_vars

\* Watching and dispatch: c1 makes the public calls one after another.
NextWatch ==
    \/ Env
    \/ Open({"c1"})
    \/ Loops
    \/ Registers({"c1"})
    \/ KeepWatches({"c1"})
    \/ Maps({"c2"})

SpecWatch == Init /\ [][NextWatch]_vars

\* Registration against concurrent opens: both clients call NewIniFile, c1
\* also registers callbacks on the handles returned, the loops dispatch.
NextReg == Env \/ Open(Clients) \/ Loops \/ Registers({"c1"})

SpecReg == Init /\ [][NextReg]_vars

\* The same under the scheduler's fairness: a watch loop that can take a step
\* eventually takes one.
LoopStep(w) ==
    /\ w \in WatcherIds
    /\ (Loop_recv(w) \/ Loop_load(w) \/ Loop_update(w))

FairWatch == SpecWatch /\ \A w \in 1..MaxWatchers : WF_vars(LoopStep(w))

\* Locks and callbacks: c1 opens and registers, c2 calls MapContents, the
\* loop takes and releases the handle's lock and the mutex step by step, and
\* the callbacks it starts call back into the package.
NextLock ==
    \/ Env
    \/ Open({"c1"})
    \/ LockLoops
    \/ CallbackSteps
    \/ Registers({"c1"})
    \/ Maps({"c2"})

SpecLock == Init /\ [][NextLock]_vars

\* The same under the scheduler's fairness, for the loops and for the
\* goroutines of the callbacks.
LockLoopStep(w) ==
    /\ w \in WatcherIds
    /\ \/ Loop_recv(w) \/ Load_lock(w) \/ Load_unlock(w)
       \/ Update_lock(w) \/ Update_go(w) \/ Update_unlock(w)

CallbackStep(g) ==
    /\ g \in GoIds
    /\ (Cb_RLock(g) \/ Cb_RUnlock(g) \/ Cb_Register(g))

\* No more goroutines than this are ever started.
GoBound == MaxWatchers * MaxEvents * (MaxSubs + MaxEvents)

FairLock ==
    /\ SpecLock
    /\ \A w \in 1..MaxWatchers : WF_vars(LockLoopStep(w))
    /\ \A g \in 1..GoBound : WF_vars(CallbackStep(g))

\* ================================================================= claims
AllKeys == Sections \X Keys \X Defaults

\* The handles NewIniFile has returned to a client.
Opened == {h \in Returned : fds[h].origin = "NewIniFile"}

\* Watch loop w finishes fd.load() in this step, and ini.Load failed in it.
FailedReload(w) ==
    /\ watchers[w].pc = "load"
    /\ watchers'[w].pc = "update"
    /\ IniLoad(file[fds[watchers[w].fd].fileName]).err

\* C1: a failed reload of a loaded handle leaves the snapshot as it was:
\* every ReadKey returns after it what it returned before it.
C1_FailedReloadKeepsSnapshot ==
    [][\A w \in WatcherIds :
          (FailedReload(w) /\ fds[watchers[w].fd].cfg # NilCfg) =>
              \A a \in AllKeys :
                  ReadKeyVal(fds'[watchers[w].fd].cfg, a[1], a[2], a[3])
                      = ReadKeyVal(fds[watchers[w].fd].cfg, a[1], a[2], a[3])]_vars

\* What C2 says ReadKey returns: the stored value when the key is in the
\* section with a non-empty value, the default otherwise.
Stored_(cfg, section, key) == IF cfg = NilCfg THEN "" ELSE cfg[section][key]

\* C2: on every handle a successful open returned, ReadKey returns the stored
\* non-empty value verbatim, and the default when the section or the key is
\* absent or the value is empty.
C2_ReadKeyValueOrDefault ==
    \A h \in Opened : \A a \in AllKeys :
        ReadKeyVal(fds[h].cfg, a[1], a[2], a[3])
            = IF Stored_(fds[h].cfg, a[1], a[2]) # ""
              THEN Stored_(fds[h].cfg, a[1], a[2]) ELSE a[3]

\* C3: a ReadKey call on a handle a client holds never faults: it returns a
\* stored value or the caller's default.
StoredValues == {Parsed(t)[a[1]][a[2]] : t \in Texts, a \in AllKeys} \ {""}

C3_ReadKeyNeverFaults ==
    last.op = "ReadKey" => last.val \in StoredValues \cup Defaults

\* C4: once a path is registered, a NewIniFile call for it returns the
\* registered handle with a nil error and changes nothing else (no reload, no
\* new watch loop, the registry as it was), and no step removes or replaces
\* a registry entry.
C4_SequentialOpenIdempotent ==
    [][/\ \A c \in Clients, p \in Paths :
             (Lookup(p) # 0 /\ NewIniFile(c, p)) =>
                 /\ last'.op = "NewIniFile" /\ last'.fd = Lookup(p) /\ ~last'.err
                 /\ UNCHANGED <<file, events, iniFiler, updaters, fds, watchers,
                                pc, loc, invoked>>
       /\ \A p \in Paths :
             Lookup(p) # 0 => iniFiler' # NilMap /\ iniFiler'[p] = Lookup(p)]_vars

C4_Witness ==
    /\ last.op = "NewIniFile" /\ last.val = "found"
    /\ \E p \in Paths : Lookup(p) = last.fd /\ last.fd # 0
    /\ fds[last.fd].watch

\* C5: however NewIniFile calls for one path interleave, only one handle is
\* ever constructed for the path.
C5_OneHandlePerPath ==
    \A p \in Paths :
        Cardinality({h \in FdIds : fds[h].origin = "NewIniFile"
                                     /\ fds[h].fileName = p}) <= 1

\* C6: when the initial load of NewIniFile fails the call returns a nil
\* handle with the error and stores nothing, and every registry entry is a
\* handle whose load succeeded and that was returned.
C6_FailedOpenRegistersNothing ==
    /\ [][\A c \in Clients :
             (pc[c] = "load" /\ pc'[c] # "load" /\ IniLoad(file[loc[c].p]).err) =>
                 /\ pc'[c] = "idle"
                 /\ last'.op = "NewIniFile" /\ last'.fd = 0 /\ last'.err
                 /\ UNCHANGED <<iniFiler, fds, watchers>>]_vars
    /\ [](\A p \in Paths :
             Lookup(p) # 0 => Lookup(p) \in Opened)

C6_Witness ==
    /\ last.op = "NewIniFile" /\ last.err /\ last.fd = 0
    /\ \A p \in Paths : Lookup(p) = 0

\* The number of times callback f occurs in a list.
Occurrences(list, f) == Cardinality({i \in 1..Len(list) : list[i] = f})

\* C8: a callback is invoked once per Write event for each time it is
\* registered for the path, whatever loops the handle has.
C8_OncePerEvent ==
    \A e \in 1..Len(events) : \A f \in Callbacks :
        invoked[e][f] <= Occurrences(Subscribers(events[e].path), f)

\* C9: a loop that consumes an event without the Write bit changes no
\* snapshot, starts no callback and waits for the next event; a loop is out
\* of its wait only for an event with the Write bit.
C9_NonWriteIgnored ==
    /\ [][\A w \in WatcherIds :
             (/\ watchers[w].pc = "wait"
              /\ watchers'[w].pos # watchers[w].pos
              /\ events[watchers'[w].pos - 1].op = OpChmod) =>
                 /\ watchers'[w].pc = "wait"
                 /\ UNCHANGED <<fds, invoked>>]_vars
    /\ [](\A w \in WatcherIds :
             watchers[w].pc # "wait" => events[watchers[w].cur].op = OpWrite)

C9_Witness ==
    \E w1, w2 \in WatcherIds : \E e \in 1..Len(events) :
        /\ watchers[w1].kind = "load" /\ watchers[w2].kind = "notify"
        /\ events[e].op = OpChmod
        /\ watchers[w1].pos > e /\ watchers[w2].pos > e
        /\ \E h \in FdIds : Subscribers(fds[h].fileName) # <<>>

\* C10: however often KeepWatch is called, at most one watch loop consumes
\* the events of a handle.
C10_OneLoopPerHandle ==
    \A h \in FdIds : Cardinality({w \in WatcherIds : watchers[w].fd = h}) <= 1

\* Loop w, started by load(), has a Write event of its path to handle: one
\* not yet received, or the one whose reload is due.
PendingWrite(w) ==
    /\ w \in WatcherIds
    /\ watchers[w].kind = "load"
    /\ \/ watchers[w].pc = "load"
       \/ \E i \in watchers[w].pos..Len(events) :
             /\ events[i].path = fds[watchers[w].fd].fileName
             /\ IsWrite(events[i].op)

\* The snapshot of handle h is the parsed form of the text t.
Shows(h, t) == fds[h].cfg = Parsed(t)

\* C7, first half: once a Write event for a parsable text t is on its way to
\* the loop of an opened handle, the handle comes to show t (or the file
\* changes again first).
C7_ReloadCompletes ==
    \A w \in 1..MaxWatchers : \A t \in Texts :
        (PendingWrite(w) /\ file[fds[watchers[w].fd].fileName] = t)
            ~> (/\ w \in WatcherIds
                /\ \/ Shows(watchers[w].fd, t)
                   \/ file[fds[watchers[w].fd].fileName] # t)

\* The loop that load() started for h has reloaded for every Write event of
\* the path, one at least, and the handle shows the text t now on disk.
Reloaded(h, t) ==
    /\ fds[h].origin = "NewIniFile"
    /\ Shows(h, t) /\ file[fds[h].fileName] = t
    /\ \E w \in WatcherIds :
          /\ watchers[w].fd = h /\ watchers[w].kind = "load"
          /\ ~PendingWrite(w)
          /\ \E i \in 1..(watchers[w].pos - 1) :
                events[i].path = fds[h].fileName /\ IsWrite(events[i].op)

\* C7, second half: after the reload the handle goes on showing the new text
\* until the file changes again.
C7_NewValueStays ==
    [][\A h \in FdIds : \A t \in Texts :
          (Reloaded(h, t) /\ file'[fds[h].fileName] = t) => Shows(h, t)']_vars

\* C7: after a Write event for a changed, parsable text the reload completes
\* and ReadKey returns the new value from then on, until a later change.
C7_ReloadThenNewValue == C7_ReloadCompletes /\ C7_NewValueStays

\* C11: a watch that could not be started is reported by the call that tried
\* to start it: a NewIniFile call that built the handle and returned no error
\* left its watch armed, and a KeepWatch call that returned no error started
\* a loop; the handle NewIniFile returned can be read.
C11_WatchInitErrorSurfaced ==
    /\ (last.op = "NewIniFile" /\ last.val = "stored" /\ ~last.err) =>
           fds[last.fd].watch
    /\ (last.op = "KeepWatch" /\ ~last.err) =>
           \E w \in WatcherIds :
               watchers[w].fd = last.fd /\ watchers[w].kind = "notify"
    /\ (last.op = "NewIniFile" /\ last.val = "stored" /\ ~fds[last.fd].watch) =>
           fds[last.fd].cfg # NilCfg

\* The watch loops of handle h.
LoopsOf(h) == {w \in WatcherIds : watchers[w].fd = h}

\* C12: LoadIniConfig starts no watch and leaves the registry as it was; on a
\* load or decode error it returns a nil handle with the error; the handle it
\* returns has its watch flag false, and the only loops it ever has are those
\* a KeepWatch call on it started.
C12_LoadIniConfigStartsNoWatch ==
    /\ [][\A c \in Clients, p \in Paths :
             LoadIniConfig(c, p) =>
                 /\ UNCHANGED <<iniFiler, updaters, watchers>>
                 /\ last'.op = "LoadIniConfig"
                 /\ IF last'.err
                    THEN last'.fd = 0 /\ UNCHANGED fds
                    ELSE /\ last'.fd = Len(fds) + 1 /\ Len(fds') = Len(fds) + 1
                         /\ ~fds'[last'.fd].watch
                         /\ \A w \in 1..Len(watchers') : watchers'[w].fd # last'.fd]_vars
    /\ [](\A h \in FdIds :
             fds[h].origin = "LoadIniConfig" =>
                 /\ ~fds[h].watch
                 /\ \A w \in LoopsOf(h) : watchers[w].kind = "notify")
    /\ [][\A w \in 1..Len(watchers') :
             (w > Len(watchers) /\ fds'[watchers'[w].fd].origin = "LoadIniConfig") =>
                 last'.op = "KeepWatch" /\ last'.fd = watchers'[w].fd]_vars

C12_Witness ==
    /\ last.op = "LoadIniConfig" /\ ~last.err
    /\ fds[last.fd].origin = "LoadIniConfig"
    /\ LoopsOf(last.fd) = {}
    /\ \E p \in Paths : Lookup(p) # 0 /\ Lookup(p) # last.fd /\ LoopsOf(Lookup(p)) # {}

\* Event e is the latest Write of its path: the file holds the text it carried.
Latest(e) ==
    /\ IsWrite(events[e].op)
    /\ \A i \in (e + 1)..Len(events) :
          ~(events[i].path = events[e].path /\ IsWrite(events[i].op))

\* Loop w finishes update() in this step.
Dispatches(w) == watchers[w].pc = "update" /\ watchers'[w].pc = "wait"

\* C14: in every loop of a handle, one started by KeepWatch included, the
\* reload for a Write event is done when the callbacks are dispatched: at the
\* dispatch for the latest Write of a parsable text the handle shows that
\* text, so a callback reads the new value.
C14_LoadBeforeDispatch ==
    [][\A w \in WatcherIds :
          LET h == watchers[w].fd
              t == file[fds[h].fileName]
          IN (Dispatches(w) /\ Latest(watchers[w].cur) /\ t \in Texts) =>
                 Shows(h, t)]_vars

\* C15: the loop that load() armed calls update() whatever load() returned:
\* after a failed reload the loop goes on to dispatch for the same event,
\* the dispatch starts every callback in the list of the path, and the loop
\* then waits for the next event.
C15_DispatchUnconditional ==
    [][\A w \in WatcherIds :
          LET h == watchers[w].fd
              p == fds[h].fileName
          IN /\ (watchers[w].pc = "load" /\ watchers'[w] # watchers[w]
                    /\ IniLoad(file[p]).err) =>
                    /\ watchers'[w].pc = "update"
                    /\ watchers'[w].cur = watchers[w].cur
                    /\ watchers'[w].pos = watchers[w].pos
             /\ (watchers[w].pc = "update" /\ watchers'[w] # watchers[w]) =>
                    /\ watchers'[w].pc = "wait"
                    /\ \A f \in Callbacks :
                          invoked'[watchers[w].cur][f] =
                              invoked[watchers[w].cur][f] + Occurrences(Subscribers(p), f)]_vars

\* The loop armed by load() has dispatched a callback for the latest Write,
\* which left the file unparsable, and for the Write before it.
C15_Witness ==
    \E w \in WatcherIds : \E f \in Callbacks :
        /\ watchers[w].kind = "load" /\ watchers[w].pc = "wait"
        /\ Len(events) = 2 /\ watchers[w].pos = 3
        /\ IsWrite(events[1].op) /\ IsWrite(events[2].op)
        /\ file[fds[watchers[w].fd].fileName] = Bad
        /\ fds[watchers[w].fd].cfg = NilCfg
        /\ invoked[1][f] >= 1 /\ invoked[2][f] >= 1
        /\ \A v \in WatcherIds : watchers[v].kind = "load"

\* The loops that load() started for handle h.
LoadLoopsOf(h) == {w \in LoopsOf(h) : watchers[w].kind = "load"}

\* C19: the watch flag is never reset; it becomes true only in a step that
\* adds the path to a watcher and starts the loop; and load() starts at most
\* one loop that receives events for a handle, however many loads it runs.
C19_WatchFlagOneWay ==
    /\ [][\A h \in FdIds : fds[h].watch => fds'[h].watch]_vars
    /\ [][\A h \in 1..Len(fds') :
             (fds'[h].watch /\ (h > Len(fds) \/ ~fds[h].watch)) =>
                 \E w \in 1..Len(watchers') :
                     /\ w > Len(watchers)
                     /\ watchers'[w].fd = h /\ watchers'[w].kind = "load"]_vars
    /\ [](\A h \in FdIds :
             /\ Cardinality(LoadLoopsOf(h)) <= 1
             /\ fds[h].watch <=> LoadLoopsOf(h) # {})

\* A handle whose loop has reloaded twice, once failing, and still has the
\* one loop.
C19_Witness ==
    \E h \in FdIds : \E w \in LoadLoopsOf(h) :
        /\ fds[h].watch
        /\ watchers[w].pos = 3 /\ watchers[w].pc = "wait"
        /\ IsWrite(events[1].op) /\ IsWrite(events[2].op)
        /\ fds[h].cfg = NilCfg
        /\ Len(watchers) < MaxWatchers

\* List s is an initial part of list t.
IsPrefix(s, t) == Len(s) <= Len(t) /\ \A i \in 1..Len(s) : t[i] = s[i]

\* C16: the list of a path only grows at its end: a Register call appends
\* its callback, a duplicate included, to the list of the handle's path and
\* changes no other list, and no step of any operation removes or reorders
\* an entry.
C16_AppendOnlyOrdered ==
    [][/\ \A c \in Clients, h \in FdIds, f \in Callbacks :
             Register(c, h, f) =>
                 /\ Subscribers(fds[h].fileName)' = Append(Subscribers(fds[h].fileName), f)
                 /\ \A p \in Paths \ {fds[h].fileName} : Subscribers(p)' = Subscribers(p)
       /\ \A p \in Paths : IsPrefix(Subscribers(p), Subscribers(p)')]_vars

\* C17: no registration is lost: a callback that is in the list of a path,
\* as often as it was registered, is there as often after every step of
\* Register, update and NewIniFile, so every later dispatch starts it.
C17_NoLostRegistration ==
    [][\A p \in Paths : \A f \in Callbacks :
          Occurrences(Subscribers(p)', f) >= Occurrences(Subscribers(p), f)]_vars

\* Client c's MapContents assigns the snapshot in this step.
MapAssigns(c) == pc[c] = "map" /\ pc'[c] = "idle"

\* C13: the snapshot of a handle is replaced only with the handle's lock held
\* exclusively: the lock is never held by a reader and a writer at once, and
\* no step of MapContents replaces the snapshot while a ReadKey is reading it
\* or a load() is replacing it.
C13_ExclusiveSnapshotWrite ==
    /\ [](\A h \in FdIds : ~(WriteLocked(h) /\ ReadLocked(h)))
    /\ [][\A c \in Clients :
             MapAssigns(c) => ~ReadLocked(loc[c].h) /\ ~WriteLocked(loc[c].h)]_vars

\* C18: update() never waits for a callback: while it holds the mutex it can
\* always start the next callback or return; when it returns it has started
\* every callback in the list for the event and released the mutex, whatever
\* the callbacks started before are doing; and a loop that waits with an
\* event due can take it.
C18_CallbacksIndependent ==
    /\ [](\A w \in WatcherIds :
             watchers[w].pc = "dispatch" =>
                 ENABLED (Update_go(w) \/ Update_unlock(w)))
    /\ [][\A w \in WatcherIds :
             (watchers[w].pc = "dispatch" /\ watchers'[w].pc # "dispatch") =>
                 /\ Cardinality(StartedBy(w)) = Len(upd.list)
                 /\ upd' = NoUpdate
                 /\ watchers'[w].pc = "wait"]_vars
    /\ [](\A w \in WatcherIds :
             (watchers[w].pc = "wait" /\ NextEvent(w) # 0) => ENABLED Loop_recv(w))

\* One callback of the first event is blocked for ever; another callback was
\* started for the same event after it; the loop has handled the second
\* event too and the mutex is free.
C18_Witness ==
    \E g1, g2, g3 \in GoIds : \E w \in WatcherIds :
        /\ g1 < g2
        /\ gos[g1].pc = "blocked" /\ gos[g1].e = 1 /\ gos[g1].w = w
        /\ gos[g2].e = 1 /\ gos[g2].w = w
        /\ gos[g3].e = 2 /\ gos[g3].w = w
        /\ watchers[w].pc = "wait" /\ watchers[w].pos = 3
        /\ upd = NoUpdate

\* Goroutine g is inside a call it made on the handle.
InCall(g) == g \in GoIds /\ gos[g].pc \in {"ReadKey", "reading", "Register"}

\* Loop w is handling an event.
Handling(w) == w \in WatcherIds /\ watchers[w].pc # "wait"

\* C20, the calls return: no ReadKey or Register call a callback makes ends
\* otherwise than by returning.
C20_CallsReturn == [](\A g \in GoIds : gos[g].pc # "panic")

\* C20, nothing waits for ever: again and again the mutex is free, no call
\* that a callback made is still in progress, and every loop is back waiting
\* for its next event.
C20_NothingWaitsForEver ==
    /\ []<>(upd.by = 0)
    /\ []<>(\A g \in GoIds : ~InCall(g))
    /\ []<>(\A w \in WatcherIds : ~Handling(w))

\* C20: a callback that calls Register or ReadKey on the handle of its path
\* always completes the call, and neither the loop, nor update(), nor the
\* calls of other clients wait for ever because of it.
C20_NoDeadlockByCallbacks == C20_CallsReturn /\ C20_NothingWaitsForEver

====
